---- MODULE Spec2Model ----
(***************************************************************************)
(* Control flow of trainer.py: the Trainer class that drives the epochs,  *)
(* tracks the best validation loss and persists / restores checkpoints.   *)
(*                                                                         *)
(* Numeric tensors are kept symbolic.  The model parameters are the       *)
(* sequence of updates applied to the freshly initialised parameters      *)
(* (two parameter values are equal only when the same updates were        *)
(* applied in the same order), and the loss of a forward pass over the    *)
(* validation iterator is an unknown but fixed function of the parameters *)
(* (lossOf, filled in the first time each parameter value is evaluated).  *)
(* Iterators are non-empty: len(iter) = 0 divides by zero (lines 97, 139).*)
(***************************************************************************)
EXTENDS Integers, Sequences, FiniteSets, TLC

\* ---------------------------------------------------------------- bounds
NumTrainBatches == 2     \* len(self.train_iter)
MaxNumEpoch == 2         \* largest params.num_epoch explored
MaxRuns == 2             \* processes (Trainer constructions) explored
MaxLoss == 1             \* finite losses are 0..MaxLoss
MaxStandalone == 2       \* direct evaluate() calls per Trainer

\* ------------------------------------------------------------ loss values
NaN == 0 - 1
Inf == MaxLoss + 1
FiniteLosses == 0..MaxLoss
LossVals == FiniteLosses \cup {NaN}

\* float comparison  a < b  (false whenever an operand is NaN)
Less(a, b) == a # NaN /\ b # NaN /\ a < b
\* float comparison  a <= b
Leq(a, b) == a # NaN /\ b # NaN /\ a <= b

\* the test of line 103
ImprovementTest_Leq(v, best) == Leq(v, best)
ImprovementTest_Greater(v, best) == Less(best, v)
ImprovementTest(v, best) == Less(v, best)

\* ------------------------------------------------------------------ files
LegacyPath == "modelTrain.pt"
Paths == {"model.pt", LegacyPath}

NoFile == [kind |-> "none"]
\* the dictionary torch.save writes at lines 106-113
Checkpoint(e, m, o, b, s, lr) ==
    [kind |-> "checkpoint", epoch |-> e, model |-> m, optimizer |-> o,
     best_valid_loss |-> b, current_steps |-> s, init_lr |-> lr]
\* a bare parameter dictionary (what the line commented out at 105 wrote)
StateDict(m) == [kind |-> "state_dict", model |-> m]

Exists(f) == f.kind # "none"

\* --------------------------------------------------- fresh trainer objects
FreshModel == << >>
FreshOptimizer == << >>
FreshSteps == 0
FreshInitLr == "hidden_dim^-0.5"
NoAttr == 0 - 2      \* attribute not set on the object

\* parameters / optimizer state reached by n updates of an uninterrupted run
ModelAfter(n) == [i \in 1..n |-> <<(i - 1) % NumTrainBatches, i>>]
OptimizerAfter(n) == [i \in 1..n |-> (i - 1) % NumTrainBatches]

\* checkpoints a previous run of train() can have left behind
PriorCheckpoints ==
    { Checkpoint(k, ModelAfter((k + 1) * NumTrainBatches),
                 OptimizerAfter((k + 1) * NumTrainBatches), l,
                 (k + 1) * NumTrainBatches, FreshInitLr) :
        k \in 0..MaxNumEpoch, l \in FiniteLosses }
PriorStateDict == StateDict(ModelAfter(NumTrainBatches))

VARIABLES
    fs,              \* path -> file content
    save_model,      \* params.save_model
    num_epoch,       \* params.num_epoch
    pc,              \* position of the single thread of control
    mode,            \* mode argument of __init__
    epoch,           \* self.epoch
    epochVal,        \* self.epochVal
    best_valid_loss, \* self.best_valid_loss
    model,           \* self.model parameters
    training,        \* self.model.training
    optimizer,       \* self.optimizer.optimizer state
    current_steps,   \* self.optimizer.current_steps
    init_lr,         \* self.optimizer.init_lr
    grad,            \* accumulated gradients of the parameters
    loopEpoch,       \* local `epoch` of train()
    batchIdx,        \* position of the iterator of line 70
    valid_loss,      \* value last returned by evaluate()
    lossOf,          \* parameters -> mean validation loss (fixed, discovered)
    runs,            \* Trainer objects constructed so far
    standalone,      \* direct evaluate() calls since construction
    ops,             \* operations applied to the current batch
    stepCalls,       \* self.optimizer.step() calls of this process
    evalCalls,       \* evaluate() calls since construction or the call of train()
    writes,          \* torch.save calls of this process
    epochLog,        \* epochs completed by the current train() call
    entry,           \* state at the call of train()
    boundary         \* state after the last batch of the current epoch

vars == <<fs, save_model, num_epoch, pc, mode, epoch, epochVal, best_valid_loss,
          model, training, optimizer, current_steps, init_lr, grad, loopEpoch,
          batchIdx, valid_loss, lossOf, runs, standalone, ops, stepCalls,
          evalCalls, writes, epochLog, entry, boundary>>

config == <<save_model, num_epoch>>
object == <<epoch, epochVal, best_valid_loss, model, training, optimizer,
            current_steps, init_lr>>
locals == <<loopEpoch, batchIdx, valid_loss, grad>>
ghosts == <<ops, stepCalls, evalCalls, writes, epochLog, entry, boundary>>

NoEntry == [epoch |-> 0, best |-> Inf, stepCalls |-> 0, writes |-> 0]
NoBoundary == [epoch |-> NoAttr, model |-> FreshModel, optimizer |-> FreshOptimizer,
               current_steps |-> 0, init_lr |-> FreshInitLr, valid_loss |-> NaN]

\* ------------------------------------------------------------------- Init
Init ==
    /\ save_model \in Paths
    /\ num_epoch \in 1..MaxNumEpoch
    /\ \E primary \in {NoFile, PriorStateDict} \cup PriorCheckpoints,
          legacy \in {NoFile} \cup PriorCheckpoints :
          /\ save_model = LegacyPath => legacy = primary
          /\ save_model # LegacyPath => primary \in {NoFile, PriorStateDict}
          /\ fs = [p \in Paths |->
                     IF p = LegacyPath THEN legacy
                     ELSE IF p = save_model THEN primary ELSE NoFile]
    /\ pc = "none"
    /\ mode = "none"
    /\ epoch = 0
    /\ epochVal = NoAttr
    /\ best_valid_loss = Inf
    /\ model = FreshModel
    /\ training = TRUE
    /\ optimizer = FreshOptimizer
    /\ current_steps = FreshSteps
    /\ init_lr = FreshInitLr
    /\ grad = "none"
    /\ loopEpoch = 0
    /\ batchIdx = 0
    /\ valid_loss = NaN
    /\ lossOf = [m \in {} |-> NaN]
    /\ runs = 0
    /\ standalone = 0
    /\ ops = << >>
    /\ stepCalls = 0
    /\ evalCalls = 0
    /\ writes = 0
    /\ epochLog = << >>
    /\ entry = NoEntry
    /\ boundary = NoBoundary


\* ------------------------------------------------------------ __init__
FreshTrainer_ZeroBest ==
    [epoch |-> 0, epochVal |-> NoAttr, best_valid_loss |-> 0,
     model |-> FreshModel, optimizer |-> FreshOptimizer,
     current_steps |-> FreshSteps, init_lr |-> FreshInitLr]

\* lines 31-42: model, epoch, best_valid_loss and optimizer as constructed
FreshTrainer ==
    [epoch |-> 0, epochVal |-> NoAttr, best_valid_loss |-> Inf,
     model |-> FreshModel, optimizer |-> FreshOptimizer,
     current_steps |-> FreshSteps, init_lr |-> FreshInitLr]

\* lines 44-47: the file at params.save_model
RestorePrimary(t, f) ==
    IF Exists(f)
    THEN [t EXCEPT !.epochVal = f.epoch, !.best_valid_loss = f.best_valid_loss]
    ELSE t

\* lines 49-55: the file "modelTrain.pt"
RestoreLegacy(t, f) ==
    IF Exists(f)
    THEN [t EXCEPT !.model = f.model, !.optimizer = f.optimizer,
                   !.current_steps = f.current_steps, !.init_lr = f.init_lr,
                   !.epoch = f.epoch]
    ELSE t

\* indexing a loaded file by 'epoch', 'model', ... raises KeyError unless it
\* is a checkpoint dictionary
KeyErrorOn(f) == f.kind = "state_dict"

Construct(m) ==
    /\ pc = "none"
    /\ runs < MaxRuns
    /\ runs' = runs + 1
    /\ mode' = m
    /\ LET primary == fs[save_model]
           legacy == fs[LegacyPath]
           failed == KeyErrorOn(primary) \/ KeyErrorOn(legacy)
           t == IF failed THEN FreshTrainer
                ELSE RestoreLegacy(RestorePrimary(FreshTrainer, primary), legacy)
       IN /\ epoch' = t.epoch
          /\ epochVal' = t.epochVal
          /\ best_valid_loss' = t.best_valid_loss
          /\ model' = t.model
          /\ optimizer' = t.optimizer
          /\ current_steps' = t.current_steps
          /\ init_lr' = t.init_lr
          /\ pc' = IF failed THEN "error" ELSE "ready"
    /\ UNCHANGED <<fs, config, training, locals, lossOf, standalone, ghosts>>

\* the process ends (normally, by an exception, or killed): the Trainer object
\* is gone, the files stay
ProcessExit ==
    /\ pc # "none"
    /\ pc' = "none"
    /\ mode' = "none"
    /\ epoch' = 0
    /\ epochVal' = NoAttr
    /\ best_valid_loss' = Inf
    /\ model' = FreshModel
    /\ training' = TRUE
    /\ optimizer' = FreshOptimizer
    /\ current_steps' = FreshSteps
    /\ init_lr' = FreshInitLr
    /\ grad' = "none"
    /\ loopEpoch' = 0
    /\ batchIdx' = 0
    /\ valid_loss' = NaN
    /\ standalone' = 0
    /\ ops' = << >>
    /\ stepCalls' = 0
    /\ evalCalls' = 0
    /\ writes' = 0
    /\ epochLog' = << >>
    /\ entry' = NoEntry
    /\ boundary' = NoBoundary
    /\ UNCHANGED <<fs, config, lossOf, runs>>

\* ---------------------------------------------------------------- train()
\* lines 60-65: the call and the start of range(self.epoch, num_epoch)
TrainCall ==
    /\ pc = "ready"
    /\ mode = "train"
    /\ loopEpoch' = epoch
    /\ epochLog' = << >>
    /\ entry' = [epoch |-> epoch, best |-> best_valid_loss, stepCalls |-> stepCalls,
                 writes |-> writes]
    /\ valid_loss' = NaN
    /\ standalone' = 0
    /\ evalCalls' = 0
    /\ pc' = "loop"
    /\ UNCHANGED <<fs, config, mode, object, batchIdx, grad, lossOf, runs, ops,
                   stepCalls, writes, boundary>>

\* line 65: range(self.epoch, num_epoch) yields i
RangeYields_Inclusive(i, n) == i <= n
RangeYields(i, n) == i < n

\* lines 65-69: next value of the range, model.train(), a new pass of the iterator
EpochHead ==
    /\ pc = "loop"
    /\ IF RangeYields(loopEpoch, num_epoch)
       THEN /\ training' = TRUE
            /\ batchIdx' = 0
            /\ pc' = "iter"
       ELSE /\ pc' = "done"
            /\ UNCHANGED <<training, batchIdx>>
    /\ UNCHANGED <<fs, config, mode, epoch, epochVal, best_valid_loss, model,
                   optimizer, current_steps, init_lr, grad, loopEpoch, valid_loss,
                   lossOf, runs, standalone, ghosts>>

\* line 70: next batch of the iterator, or lines 97-98 when it is exhausted
BatchHead ==
    /\ pc = "iter"
    /\ IF batchIdx < NumTrainBatches
       THEN /\ pc' = "zero_grad"
            /\ ops' = << >>
       ELSE /\ pc' = "evaluate"
            /\ UNCHANGED ops
    /\ UNCHANGED <<fs, config, mode, object, locals, lossOf, runs, standalone,
                   stepCalls, evalCalls, writes, epochLog, entry, boundary>>

\* one statement of the loop body: moves from `at` to `to`
BodyStep(at, to, g) ==
    /\ pc = at
    /\ pc' = to
    /\ grad' = g
    /\ ops' = Append(ops, at)
    /\ UNCHANGED <<fs, config, mode, object, loopEpoch, batchIdx, valid_loss,
                   lossOf, runs, standalone, stepCalls, evalCalls, writes,
                   epochLog, entry, boundary>>

\* line 72
ZeroGrad == BodyStep("zero_grad", "forward", "zero")
\* line 77
Forward == BodyStep("forward", "loss", grad)
\* lines 80-84
Loss == BodyStep("loss", "backward", grad)
\* line 85
Backward_SkipClip == BodyStep("backward", "step", "raw")
Backward == BodyStep("backward", "clip", "raw")
\* line 88
ClipGrad == BodyStep("clip", "step", "clipped")

\* ScheduledAdam.step (model/optim.py): the cumulative step counter
ScheduledAdamSteps(n) == n + 1

\* line 90 (and 92-95): one optimizer step with the gradients of this batch
OptimizerStep ==
    /\ pc = "step"
    /\ current_steps' = ScheduledAdamSteps(current_steps)
    /\ model' = Append(model, <<batchIdx, current_steps'>>)
    /\ optimizer' = Append(optimizer, batchIdx)
    /\ stepCalls' = stepCalls + 1
    /\ ops' = Append(ops, "step")
    /\ batchIdx' = batchIdx + 1
    /\ boundary' = IF batchIdx + 1 = NumTrainBatches
                   THEN [epoch |-> loopEpoch, model |-> model',
                         optimizer |-> optimizer', current_steps |-> current_steps',
                         init_lr |-> init_lr, valid_loss |-> NaN]
                   ELSE boundary
    /\ pc' = "iter"
    /\ UNCHANGED <<fs, config, mode, epoch, epochVal, best_valid_loss, training,
                   init_lr, grad, loopEpoch, valid_loss, lossOf, runs, standalone,
                   evalCalls, writes, epochLog, entry>>


\* -------------------------------------------------------------- evaluate()
EvaluateBody_Updates(v) ==
    /\ v \in LossVals
    /\ IF model \in DOMAIN lossOf
       THEN v = lossOf[model] /\ UNCHANGED lossOf
       ELSE lossOf' = [m \in DOMAIN lossOf \cup {model} |->
                         IF m = model THEN v ELSE lossOf[m]]
    /\ training' = FALSE
    /\ valid_loss' = v
    /\ evalCalls' = evalCalls + 1
    /\ current_steps' = current_steps + 1
    /\ model' = Append(model, <<0, current_steps'>>)
    /\ UNCHANGED <<fs, config, mode, epoch, epochVal, best_valid_loss,
                   optimizer, init_lr, grad, loopEpoch, batchIdx,
                   runs, ops, stepCalls, writes, epochLog, entry>>

\* lines 118-139: the pass over valid_iter under no_grad; v is the returned mean
\* loss, a fixed function of the parameters
EvaluateBody(v) ==
    /\ v \in LossVals
    /\ IF model \in DOMAIN lossOf
       THEN v = lossOf[model] /\ UNCHANGED lossOf
       ELSE lossOf' = [m \in DOMAIN lossOf \cup {model} |->
                         IF m = model THEN v ELSE lossOf[m]]
    /\ training' = FALSE
    /\ valid_loss' = v
    /\ evalCalls' = evalCalls + 1
    /\ UNCHANGED <<fs, config, mode, epoch, epochVal, best_valid_loss, model,
                   optimizer, current_steps, init_lr, grad, loopEpoch, batchIdx,
                   runs, ops, stepCalls, writes, epochLog, entry>>

\* line 98: the call from train()
EvaluateInTrain ==
    /\ pc = "evaluate"
    /\ \E v \in LossVals :
          /\ EvaluateBody(v)
          /\ boundary' = [boundary EXCEPT !.valid_loss = v]
    /\ pc' = "compare"
    /\ UNCHANGED standalone

\* evaluate() called on a constructed Trainer
Evaluate ==
    /\ pc = "ready"
    /\ mode = "train"
    /\ standalone < MaxStandalone
    /\ standalone' = standalone + 1
    /\ \E v \in LossVals : EvaluateBody(v)
    /\ UNCHANGED <<pc, boundary>>

\* lines 106-113: the dictionary handed to torch.save
SavedState_StaleEpoch ==
    Checkpoint(epoch, model, optimizer, best_valid_loss', current_steps, init_lr)
SavedState ==
    Checkpoint(loopEpoch, model, optimizer, best_valid_loss', current_steps, init_lr)

\* lines 103-116, then the next value of the range of line 65
CompareAndSave ==
    /\ pc = "compare"
    /\ IF ImprovementTest(valid_loss, best_valid_loss)
       THEN /\ best_valid_loss' = valid_loss
            /\ fs' = [fs EXCEPT ![save_model] = SavedState]
            /\ writes' = writes + 1
       ELSE UNCHANGED <<best_valid_loss, fs, writes>>
    /\ epochLog' = Append(epochLog, loopEpoch)
    /\ loopEpoch' = loopEpoch + 1
    /\ pc' = "loop"
    /\ UNCHANGED <<config, mode, epoch, epochVal, model, training, optimizer,
                   current_steps, init_lr, grad, batchIdx, valid_loss, lossOf,
                   runs, standalone, ops, stepCalls, evalCalls, entry, boundary>>

\* ------------------------------------------------------------- inference()
\* Module.load_state_dict (strict): the keys must be the parameter names
LoadStateDict(m, obj) ==
    IF obj.kind = "state_dict"
    THEN [ok |-> TRUE, model |-> obj.model]
    ELSE [ok |-> FALSE, model |-> m]

\* lines 141-161
Inference ==
    /\ pc = "ready"
    /\ mode = "test"
    /\ LET f == fs[save_model]
       IN IF ~Exists(f)
          THEN /\ pc' = "error"
               /\ UNCHANGED <<model, training>>
          ELSE LET r == LoadStateDict(model, f)
               IN /\ model' = r.model
                  /\ IF r.ok
                     THEN training' = FALSE /\ pc' = "tested"
                     ELSE UNCHANGED training /\ pc' = "error"
    /\ UNCHANGED <<fs, config, mode, epoch, epochVal, best_valid_loss, optimizer,
                   current_steps, init_lr, locals, lossOf, runs, standalone,
                   ghosts>>

\* ------------------------------------------------------------------- Next
TrainStep ==
    \/ EpochHead
    \/ BatchHead
    \/ ZeroGrad
    \/ Forward
    \/ Loss
    \/ Backward
    \/ ClipGrad
    \/ OptimizerStep
    \/ EvaluateInTrain
    \/ CompareAndSave

Next ==
    \/ \E m \in {"train", "test"} : Construct(m)
    \/ ProcessExit
    \/ TrainCall
    \/ TrainStep
    \/ Evaluate
    \/ Inference

Spec == Init /\ [][Next]_vars


\* ----------------------------------------------------------------- claims
TrainPcs == {"loop", "iter", "zero_grad", "forward", "loss", "backward", "clip",
             "step", "evaluate", "compare"}
NoFiles == ~Exists(fs[save_model]) /\ ~Exists(fs[LegacyPath])
OnlyPrimary == save_model # LegacyPath /\ ~Exists(fs[LegacyPath])
             /\ fs[save_model].kind = "checkpoint"

\* C1: at the end of every epoch a checkpoint is written to the save path if and
\* only if the validation loss just returned is strictly less than the value
\* best_valid_loss held before the comparison; otherwise nothing is written.
C1_CheckpointIffImproved ==
    [][(pc = "compare" /\ pc' = "loop") =>
         /\ (writes' = writes + 1) <=> Less(valid_loss, best_valid_loss)
         /\ Less(valid_loss, best_valid_loss) =>
               /\ fs'[save_model].kind = "checkpoint"
               /\ fs'[save_model].best_valid_loss = valid_loss
         /\ ~Less(valid_loss, best_valid_loss) => fs' = fs /\ writes' = writes]_vars

\* an epoch that wrote and an epoch that did not (its loss equal to the best)
C1_Witness ==
    /\ pc = "loop"
    /\ Len(epochLog) = 2
    /\ writes = 1
    /\ valid_loss = best_valid_loss
    /\ entry.best = Inf

\* C2: during the life of a Trainer best_valid_loss never increases, so it stays
\* at or below every earlier value and the value it had at construction.
C2_BestMonotone ==
    [][(pc # "none" /\ pc' # "none") =>
         /\ Leq(best_valid_loss', best_valid_loss)
         /\ (pc \in TrainPcs => Leq(best_valid_loss, entry.best))]_vars

\* a best loss restored from a checkpoint and then improved by train()
C2_Witness ==
    /\ pc = "done"
    /\ entry.best # Inf
    /\ Less(best_valid_loss, entry.best)

\* C3: a Trainer constructed when only the checkpoint written by train() exists
\* continues from the epoch after the checkpointed one, with the checkpointed
\* parameters, optimizer state and step counter.
C3_ResumeContinuesFromCheckpoint ==
    (pc = "ready" /\ OnlyPrimary) =>
        LET c == fs[save_model]
        IN /\ epoch = c.epoch + 1
           /\ model = c.model
           /\ optimizer = c.optimizer
           /\ current_steps = c.current_steps

\* C4: with a checkpoint at the save path at construction, the epoch index and
\* the best validation loss are restored from it and train() starts from them.
C4_RestoresEpochAndBest ==
    /\ (pc = "ready" /\ OnlyPrimary) =>
          /\ epoch = fs[save_model].epoch
          /\ best_valid_loss = fs[save_model].best_valid_loss
    /\ (pc \in TrainPcs /\ writes = 0 /\ OnlyPrimary) =>
          /\ entry.epoch = fs[save_model].epoch
          /\ entry.best = fs[save_model].best_valid_loss

\* C5: inference() on the record train() writes loads the record's model field
\* into the model and the test pass proceeds without error.
C5_InferenceLoadsCheckpoint ==
    (mode = "test" /\ pc \in {"tested", "error"} /\ OnlyPrimary) =>
        /\ pc = "tested"
        /\ model = fs[save_model].model

\* C6: evaluate() leaves the parameters, the optimizer counters, the epoch
\* index, best_valid_loss and the files unchanged, and two consecutive calls on
\* the same state return the same loss.
C6_EvaluateFrame ==
    [][(evalCalls' = evalCalls + 1) =>
         /\ model' = model
         /\ optimizer' = optimizer
         /\ current_steps' = current_steps
         /\ init_lr' = init_lr
         /\ epoch' = epoch
         /\ best_valid_loss' = best_valid_loss
         /\ fs' = fs
         /\ (pc = "ready" /\ standalone >= 1) => valid_loss' = valid_loss]_vars

\* two consecutive evaluate() calls on a constructed Trainer
C6_Witness == pc = "ready" /\ standalone = 2 /\ evalCalls = 2

\* C7: every record train() writes holds the epoch, parameters, optimizer
\* state and counters reached after the last batch of the recorded epoch, and
\* the validation loss evaluate() returned for that epoch.
C7_CheckpointSelfConsistent ==
    [][(writes' = writes + 1) =>
         /\ boundary.epoch = loopEpoch
         /\ fs'[save_model] =
               Checkpoint(boundary.epoch, boundary.model, boundary.optimizer,
                          boundary.valid_loss, boundary.current_steps,
                          boundary.init_lr)
         /\ fs'[save_model].best_valid_loss = lossOf[fs'[save_model].model]]_vars

\* a checkpoint written at the end of a later epoch of the run
C7_Witness ==
    /\ pc = "loop"
    /\ writes >= 1
    /\ fs[save_model].kind = "checkpoint"
    /\ fs[save_model].epoch = loopEpoch - 1
    /\ fs[save_model].epoch > entry.epoch

\* C8: with neither file present construction succeeds with epoch 0, best loss
\* infinity and freshly initialised model and optimizer.
C8_MissingFilesFreshStart ==
    [][(pc = "none" /\ pc' # "none" /\ NoFiles) =>
         /\ pc' = "ready"
         /\ epoch' = 0
         /\ best_valid_loss' = Inf
         /\ model' = FreshModel
         /\ optimizer' = FreshOptimizer
         /\ current_steps' = FreshSteps
         /\ init_lr' = FreshInitLr]_vars

\* a Trainer constructed with no file present
C8_Witness == pc = "ready" /\ NoFiles /\ runs >= 1

\* this step is a call of inference(), returning or raising
InferenceRan == pc = "ready" /\ mode = "test" /\ pc' \in {"tested", "error"}

\* batches of the current train() call that have been stepped
Processed ==
    IF pc \in {"loop", "done"} THEN Len(epochLog) * NumTrainBatches
    ELSE Len(epochLog) * NumTrainBatches + batchIdx

\* C9: each training batch goes through zero-gradients, forward, loss,
\* backpropagate, clip, one optimizer step, in that order and in the order of
\* the iterator; the optimizer is stepped once per batch and never by
\* evaluate() or inference(); evaluate() runs after the last batch of the epoch.
C9_BatchSequence ==
    [][/\ pc = "step" =>
            /\ ops = <<"zero_grad", "forward", "loss", "backward", "clip">>
            /\ grad = "clipped"
       /\ (stepCalls' = stepCalls + 1) => (pc = "step" /\ pc' = "iter")
       /\ pc \in TrainPcs => stepCalls - entry.stepCalls = Processed
       /\ pc = "evaluate" =>
            /\ batchIdx = NumTrainBatches
            /\ \A i \in 1..NumTrainBatches :
                  model[Len(model) - NumTrainBatches + i][1] = i - 1
       /\ (evalCalls' = evalCalls + 1 \/ InferenceRan) =>
            /\ stepCalls' = stepCalls
            /\ current_steps' = current_steps
            /\ optimizer' = optimizer]_vars

\* the evaluate() of a second epoch, after all its batches
C9_Witness == pc = "evaluate" /\ Len(epochLog) = 1 /\ batchIdx = NumTrainBatches

\* epochs train() has to run from the epoch index it was called with
Expected == IF num_epoch > entry.epoch THEN num_epoch - entry.epoch ELSE 0

\* C10: train() called with epoch index e runs exactly max(0, num_epoch - e)
\* epochs in increasing order, each one pass over the training iterator and one
\* evaluate() call, then returns; with e >= num_epoch it steps and writes nothing.
C10_TrainSchedule ==
    /\ pc = "done" =>
          /\ epochLog = [i \in 1..Expected |-> entry.epoch + i - 1]
          /\ stepCalls - entry.stepCalls = Expected * NumTrainBatches
          /\ evalCalls = Expected
          /\ entry.epoch >= num_epoch =>
                (stepCalls = entry.stepCalls /\ writes = entry.writes)
    /\ pc \in TrainPcs =>
          /\ loopEpoch <= entry.epoch + Expected
          /\ batchIdx <= NumTrainBatches
          /\ ENABLED TrainStep

\* a train() call resumed part-way that ran the remaining epochs and returned
C10_Witness == pc = "done" /\ entry.epoch > 0 /\ entry.epoch < num_epoch

====
